---- MODULE Spec2Model ----
(***************************************************************************)
(* Model of app.py, the Streamlit "Protection indicators" dashboard.       *)
(*                                                                         *)
(* A Streamlit script is executed from top to bottom once per user         *)
(* interaction and per session.  One execution ("run") is modelled by the  *)
(* chain  StartRun/Navigate -> LoadData -> BuildMap -> page body.  What    *)
(* outlives a run is the process-wide cache of load_data                   *)
(* (st.cache_data), each session's widget state (the sidebar radio) and    *)
(* each session's st.session_state["new_responses"].                       *)
(*                                                                         *)
(* Strings of the source that hold accented letters are written without   *)
(* the accent ("Feminin" for "Féminin", ...).  Chart and table rendering   *)
(* belong to the charting/UI libraries and are recorded as executed steps  *)
(* only.                                                                   *)
(***************************************************************************)
EXTENDS Integers, Sequences, FiniteSets, TLC

VARIABLES
    file,       \* the spreadsheet on disk: [exists, columns, rows]
    cache,      \* st.cache_data entry of load_data(): NoData or a DataFrame
    page,       \* [session -> value of the sidebar radio]
    store,      \* [session -> st.session_state["new_responses"]: set, items]
    submitted,  \* history: [session -> records submitted in that session]
    pc,         \* [session -> position of the session's current run]
    imap,       \* [session -> INDICATOR_COLUMNS of the current run]
    view,       \* [session -> Dashboard locals: selections, df, aggregates]
    out         \* [session -> outcome of the run: status, messages, steps]

vars == <<file, cache, page, store, submitted, pc, imap, view, out>>

(***************************************************************************)
(* Bounds of the model.                                                    *)
(***************************************************************************)
MaxRows == 2        \* rows of the spreadsheet, filter specification
MaxAnsRows == 3     \* rows of the spreadsheet, aggregation specification
MaxCols == 29       \* columns of the spreadsheet, column-count specification
MaxSubmit == 2      \* form submissions per session
AgeScale == 2       \* ages are held in units of 1/AgeScale year

Sessions == {"s1", "s2"}

(***************************************************************************)
(* Values.                                                                 *)
(***************************************************************************)
NA == "<NA>"                          \* an empty spreadsheet cell (NaN/None)
None == "<None>"                      \* Python None
NaN == [kind |-> "nan", v |-> 0]      \* float NaN
Num(v) == [kind |-> "num", v |-> v]   \* a number, v in units of 1/AgeScale
Text == [kind |-> "text", v |-> 0]    \* a non-numeric cell such as "abc"
Blank == [kind |-> "na", v |-> 0]     \* an empty cell of a numeric column

Unset == [set |-> FALSE, items |-> <<>>]  \* key absent from st.session_state
NoData == [loaded |-> FALSE, columns |-> <<>>, rows |-> <<>>]

Dashboard == "1. Dashboard"
InterviewFormPage == "2. Interview form"
Pages == {Dashboard, InterviewFormPage}

CAMP == "Camps :"
SEX == "Sexe :"
AGE == "Age :"
PBS == "PBS :"
PBS_SPACE == "PBS : "

INDICATOR_INDEXES ==
    [SDH1 |-> 7, SDH2 |-> 9, MEA1 |-> 11, MEA2 |-> 13,
     ACC1 |-> 22, ACC2 |-> 23, PEM1 |-> 25, PEM2 |-> 27]

Codes == DOMAIN INDICATOR_INDEXES

LIKERT_OPTIONS ==
    << "Oui, completement", "Plutot oui", "Pas vraiment",
       "Pas du tout", "Ne sait pas", "Pas de reponse" >>

Range(f) == {f[x] : x \in DOMAIN f}

RECURSIVE SumSeq(_)
SumSeq(q) == IF q = <<>> THEN 0 ELSE Head(q) + SumSeq(Tail(q))

Indices(q) == [i \in 1..Len(q) |-> i]

(***************************************************************************)
(* The spreadsheet.  Its demographic columns precede the question columns, *)
(* which start at position 7 (the first configured indicator position).    *)
(* A file of n columns holds the first n columns of this layout.           *)
(***************************************************************************)
FullColumns ==
    << "start", "end", "Nom", CAMP, SEX, AGE, PBS,
       "Q7", "Q8", "Q9", "Q10", "Q11", "Q12", "Q13", "Q14", "Q15", "Q16",
       "Q17", "Q18", "Q19", "Q20", "Q21", "Q22", "Q23", "Q24", "Q25", "Q26",
       "Q27", "Q28", "Q29" >>

\* The first n columns; without an age column when age is FALSE.
ColumnsOf(n, age) ==
    [i \in 1..n |->
        IF FullColumns[i] = AGE /\ ~age THEN "Observations" ELSE FullColumns[i]]

\* A row: camp, sex, the raw age cell, the answer in column "Q7" and the
\* answer in every other question column.
Row(camp, sex, age, q7, q) ==
    [camp |-> camp, sex |-> sex, age |-> age, q7 |-> q7, q |-> q]

\* The cell of a row in a named column.
Cell(row, col) ==
    CASE col = CAMP -> row.camp
      [] col = SEX  -> row.sex
      [] col = "Q7" -> row.q7
      [] OTHER      -> row.q

FileOf(exists, columns, rows) ==
    [exists |-> exists, columns |-> columns, rows |-> rows]

(***************************************************************************)
(* load_data (lines 33-52): pd.to_numeric(errors="coerce") on the age      *)
(* column keeps a number and turns every other cell into NaN.              *)
(***************************************************************************)
ToNumeric(cell) == IF cell.kind = "num" THEN cell ELSE NaN

HasColumn(columns, name) == \E i \in 1..Len(columns) : columns[i] = name

ReadExcel(f) ==
    [loaded |-> TRUE, columns |-> f.columns,
     rows |-> IF HasColumn(f.columns, AGE)
              THEN [i \in 1..Len(f.rows) |->
                        [f.rows[i] EXCEPT !.age = ToNumeric(f.rows[i].age)]]
              ELSE f.rows]

(***************************************************************************)
(* Run locals and their blank values.                                      *)
(***************************************************************************)
NoMap == [built |-> FALSE, cols |-> <<>>]
NoView ==
    [set |-> FALSE, camp_filter |-> {}, sex_filter |-> {}, age_range |-> <<>>,
     df |-> <<>>, key |-> "", counts |-> <<>>, total |-> 0,
     sex_ratio |-> <<0, 0>>, mean_age |-> [sum |-> 0, n |-> 0]]
NoOut == [status |-> "none", msgs |-> {}, steps |-> {}, loads |-> 0,
          form |-> <<>>]

MissingFileError == "error: data file 'protection_evaluation.xlsx' was not found"
NoRecordsWarning == "warning: no records match these filters"
UnmappedWarning == "warning: indicator columns could not be mapped"
NoAgeInfo == "info: age column not available"
NoInterviewsInfo == "info: no interviews recorded yet"
SavedSuccess == "success: interview saved in the current session"

Ends(o, status, msgs) == [o EXCEPT !.status = status, !.msgs = @ \cup msgs]

(***************************************************************************)
(* A user interaction starts a run of the script (lines 12-27).            *)
(***************************************************************************)
\* Any widget interaction other than the sidebar radio.
StartRun(s) ==
    /\ pc[s] = "idle"
    /\ pc' = [pc EXCEPT ![s] = "load"]
    /\ imap' = [imap EXCEPT ![s] = NoMap]
    /\ view' = [view EXCEPT ![s] = NoView]
    /\ out' = [out EXCEPT ![s] = NoOut]
    /\ UNCHANGED <<file, cache, page, store, submitted>>

\* The sidebar radio is set to the other page (lines 17-21).
Navigate(s) ==
    /\ pc[s] = "idle"
    /\ page' = [page EXCEPT ![s] = CHOOSE p \in Pages : p # page[s]]
    /\ pc' = [pc EXCEPT ![s] = "load"]
    /\ imap' = [imap EXCEPT ![s] = NoMap]
    /\ view' = [view EXCEPT ![s] = NoView]
    /\ out' = [out EXCEPT ![s] = NoOut]
    /\ UNCHANGED <<file, cache, store, submitted>>

(***************************************************************************)
(* data = load_data() (lines 33-55).  A cached result is returned without  *)
(* touching the file; st.stop() inside load_data ends the run and leaves   *)
(* nothing in the cache.                                                   *)
(***************************************************************************)
Exists_Always(f) == TRUE

\* os.path.exists(path) (line 39)
Exists(f) == f.exists

LoadData(s) ==
    /\ pc[s] = "load"
    /\ IF cache.loaded
       THEN /\ pc' = [pc EXCEPT ![s] = "map"]
            /\ UNCHANGED <<cache, out>>
       ELSE IF ~Exists(file)
       THEN /\ out' = [out EXCEPT ![s] =
                          Ends([@ EXCEPT !.loads = @ + 1], "halted",
                               {MissingFileError})]
            /\ pc' = [pc EXCEPT ![s] = "idle"]
            /\ UNCHANGED cache
       ELSE /\ cache' = ReadExcel(file)
            /\ out' = [out EXCEPT ![s].loads = @ + 1]
            /\ pc' = [pc EXCEPT ![s] = "map"]
    /\ UNCHANGED <<file, page, store, submitted, imap, view>>

(***************************************************************************)
(* INDICATOR_COLUMNS (lines 63-78).                                        *)
(***************************************************************************)
IndexError == "<IndexError>"

\* data.columns[idx]
ColumnAt(columns, idx) ==
    IF idx < Len(columns) THEN columns[idx + 1] ELSE IndexError

InRange_Inclusive(idx, n) == idx <= n

\* if idx < len(data.columns)
InRange(idx, n) == idx < n

IndicatorColumns(columns) ==
    [c \in {c \in Codes : InRange(INDICATOR_INDEXES[c], Len(columns))} |->
        ColumnAt(columns, INDICATOR_INDEXES[c])]

BuildMap(s) ==
    /\ pc[s] = "map"
    /\ LET m == IndicatorColumns(cache.columns) IN
       IF \E c \in DOMAIN m : m[c] = IndexError
       THEN /\ out' = [out EXCEPT ![s] = Ends(@, "crashed", {"IndexError"})]
            /\ pc' = [pc EXCEPT ![s] = "idle"]
            /\ UNCHANGED imap
       ELSE /\ imap' = [imap EXCEPT ![s] = [built |-> TRUE, cols |-> m]]
            /\ pc' = [pc EXCEPT ![s] = "page"]
            /\ UNCHANGED out
    /\ UNCHANGED <<file, cache, page, store, submitted, view>>

(***************************************************************************)
(* PAGE 1 - DASHBOARD, filters (lines 99-136).                             *)
(***************************************************************************)
\* sorted(data[col].dropna().unique()): the options of a multiselect.
Observed(data, col) == {Cell(data.rows[i], col) : i \in 1..Len(data.rows)} \ {NA}

\* The numeric values of the age column (min() and max() skip NaN).
AgeValues(data) ==
    {data.rows[i].age.v : i \in {j \in 1..Len(data.rows) : data.rows[j].age.kind = "num"}}

Min(S) == CHOOSE x \in S : \A y \in S : x <= y
Max(S) == CHOOSE x \in S : \A y \in S : x >= y

\* int(x) of a float: truncation toward zero.
ToInt(x) == IF x >= 0 THEN x \div AgeScale ELSE -((-x) \div AgeScale)

\* st.slider("Age range", min_age, max_age, (min_age, max_age)): any pair
\* lo <= hi of integers within the bounds.
AgeRanges(min_age, max_age) ==
    {r \in (min_age..max_age) \X (min_age..max_age) : r[1] <= r[2]}

\* Series.isin(values)
IsIn(v, values) == v \in values

Between_Exclusive(a, lo, hi) ==
    a.kind = "num" /\ lo * AgeScale < a.v /\ a.v < hi * AgeScale

\* Series.between(lo, hi): inclusive on both sides, False for NaN.
Between(a, lo, hi) ==
    a.kind = "num" /\ lo * AgeScale <= a.v /\ a.v <= hi * AgeScale

\* Lines 126-130.  A DataFrame derived from data is the sequence of the index
\* labels (row numbers of data) it keeps.
ApplyFilters(data, camp_filter, sex_filter, age_range) ==
    LET InCamp(i) == IsIn(data.rows[i].camp, camp_filter)
        InSex(i) == IsIn(data.rows[i].sex, sex_filter)
        InAge(i) == Between(data.rows[i].age, age_range[1], age_range[2])
        df0 == Indices(data.rows)
        df1 == SelectSeq(df0, InCamp)
        df2 == SelectSeq(df1, InSex)
    IN  IF age_range # <<>> THEN SelectSeq(df2, InAge) ELSE df2

GuardDisabled(df) == FALSE

\* if len(df) == 0 (line 134)
IsEmpty(df) == Len(df) = 0

\* The selections a user can make on this data (lines 107-123); age_range is
\* <<>> (None) when the data has no age column.
Selections(data) ==
    LET ages == AgeValues(data) IN
    [camp_filter : SUBSET Observed(data, CAMP),
     sex_filter : SUBSET Observed(data, SEX),
     age_range : IF HasColumn(data.columns, AGE)
                 THEN AgeRanges(ToInt(Min(ages)), ToInt(Max(ages)))
                 ELSE {<<>>}]

\* The selections the widgets hold before the user touches them.
DefaultSelection(data) ==
    LET ages == AgeValues(data) IN
    [camp_filter |-> Observed(data, CAMP),
     sex_filter |-> Observed(data, SEX),
     age_range |-> IF HasColumn(data.columns, AGE)
                   THEN <<ToInt(Min(ages)), ToInt(Max(ages))>>
                   ELSE <<>>]

DashboardFilter(s) ==
    /\ pc[s] = "page"
    /\ page[s] = Dashboard
    /\ IF ~HasColumn(cache.columns, CAMP) \/ ~HasColumn(cache.columns, SEX)
       THEN \* data["Camps :"] / data["Sexe :"] (lines 108, 112)
            /\ out' = [out EXCEPT ![s] = Ends(@, "crashed", {"KeyError"})]
            /\ pc' = [pc EXCEPT ![s] = "idle"]
            /\ UNCHANGED view
       ELSE IF HasColumn(cache.columns, AGE) /\ AgeValues(cache) = {}
       THEN \* int(nan) (lines 117-118)
            /\ out' = [out EXCEPT ![s] = Ends(@, "crashed", {"ValueError"})]
            /\ pc' = [pc EXCEPT ![s] = "idle"]
            /\ UNCHANGED view
       ELSE \E sel \in Selections(cache) :
            LET df == ApplyFilters(cache, sel.camp_filter, sel.sex_filter,
                                   sel.age_range) IN
            /\ view' = [view EXCEPT ![s] =
                           [@ EXCEPT !.set = TRUE,
                                     !.camp_filter = sel.camp_filter,
                                     !.sex_filter = sel.sex_filter,
                                     !.age_range = sel.age_range,
                                     !.df = df]]
            /\ IF IsEmpty(df)
               THEN /\ out' = [out EXCEPT ![s] =
                                  Ends(@, "halted", {NoRecordsWarning})]
                    /\ pc' = [pc EXCEPT ![s] = "idle"]
               ELSE /\ pc' = [pc EXCEPT ![s] = "render"]
                    /\ UNCHANGED out
    /\ UNCHANGED <<file, cache, page, store, submitted, imap>>

(***************************************************************************)
(* PAGE 1 - DASHBOARD, key figures, charts, table (lines 138-267).         *)
(***************************************************************************)
\* df[col] as the sequence of its cells.
ColumnOf(data, df, col) == [i \in 1..Len(df) |-> Cell(data.rows[df[i]], col)]

CountOf(q, v) == Cardinality({i \in DOMAIN q : q[i] = v})

\* Series.value_counts(): observed values, missing ones dropped.
ValueCounts(q) == [v \in Range(q) \ {NA} |-> CountOf(q, v)]

\* .reindex(labels): one entry per label, NaN where the label was not observed.
Reindex(vc, labels) ==
    [i \in 1..Len(labels) |->
        IF labels[i] \in DOMAIN vc
        THEN [level |-> labels[i], isnan |-> FALSE, n |-> vc[labels[i]]]
        ELSE [level |-> labels[i], isnan |-> TRUE, n |-> 0]]

\* .fillna(0).astype(int)
FillNa(entries) == [i \in DOMAIN entries |-> [entries[i] EXCEPT !.isnan = FALSE, !.n = IF entries[i].isnan THEN 0 ELSE @]]

ObservedLevels(q) ==
    LET vc == ValueCounts(q)
        seen == SelectSeq(LIKERT_OPTIONS, LAMBDA l : l \in DOMAIN vc)
    IN  FillNa(Reindex(vc, seen))

\* counts (lines 218-224)
IndicatorDistribution(q) == FillNa(Reindex(ValueCounts(q), LIKERT_OPTIONS))

\* df["Age :"].mean(): sum and number of the non-missing ages.
MeanAge(data, df) ==
    LET nums == SelectSeq(df, LAMBDA i : data.rows[i].age.kind = "num") IN
    [sum |-> SumSeq([i \in 1..Len(nums) |-> data.rows[nums[i]].age.v]),
     n |-> Len(nums)]

\* selectbox over the mapped codes (lines 208-212)
IndicatorChoices(m) == IF DOMAIN m = {} THEN {""} ELSE DOMAIN m

\* if not INDICATOR_COLUMNS (lines 205, 314)
MapIsEmpty(m) == DOMAIN m = {}

DashboardSteps(columns, m) ==
    {"count", "sex_ratio", "category_counts", "table", "export"}
    \cup (IF HasColumn(columns, AGE) THEN {"mean_age", "age_histogram"} ELSE {})
    \cup (IF HasColumn(columns, PBS_SPACE) \/ HasColumn(columns, PBS)
          THEN {"disability_rate"} ELSE {})
    \cup (IF MapIsEmpty(m) THEN {}
          ELSE {"indicator_distribution", "indicator_by_sex"})

DashboardRender(s) ==
    /\ pc[s] = "render"
    /\ \E key \in IndicatorChoices(imap[s].cols) :
        LET df == view[s].df
            m == imap[s].cols
            sexcol == ColumnOf(cache, df, SEX)
        IN
        /\ view' = [view EXCEPT ![s] =
              [@ EXCEPT !.total = Len(df),
                        !.mean_age = IF HasColumn(cache.columns, AGE)
                                     THEN MeanAge(cache, df) ELSE @,
                        !.sex_ratio = <<CountOf(sexcol, "Masculin"),
                                        CountOf(sexcol, "Feminin")>>,
                        !.key = IF MapIsEmpty(m) THEN "" ELSE key,
                        !.counts = IF MapIsEmpty(m) THEN <<>>
                                   ELSE IndicatorDistribution(
                                            ColumnOf(cache, df, m[key]))]]
        /\ out' = [out EXCEPT ![s] =
              [Ends(@, "done",
                    (IF MapIsEmpty(m) THEN {UnmappedWarning} ELSE {})
                    \cup (IF HasColumn(cache.columns, AGE) THEN {}
                          ELSE {NoAgeInfo}))
               EXCEPT !.steps = DashboardSteps(cache.columns, m)]]
    /\ pc' = [pc EXCEPT ![s] = "idle"]
    /\ UNCHANGED <<file, cache, page, store, submitted, imap>>

(***************************************************************************)
(* PAGE 2 - INTERVIEW FORM (lines 273-363).                                *)
(***************************************************************************)
AGE_MIN == 15
AGE_DEFAULT == 25

InitStore_Reset(st) == [set |-> TRUE, items |-> <<>>]

\* if "new_responses" not in st.session_state: ... = [] (lines 281-282)
InitStore(st) == IF st.set THEN st ELSE [set |-> TRUE, items |-> <<>>]

CampOptions_Fixed(data) == {"A", "B"}

\* st.selectbox("Camp", camps): one of the observed camps, None without any.
CampOptions(data) ==
    IF Observed(data, CAMP) = {} THEN {None} ELSE Observed(data, CAMP)

\* What the user can enter in the form (lines 289-326); one radio per mapped
\* indicator code.
FormInputs(data, m) ==
    [nom : {"r1"},
     camp : CampOptions(data),
     sexe : {"Feminin"},
     age : {AGE_MIN, AGE_DEFAULT},
     pbs : {"Oui"},
     comments : {""},
     now : {"utcnow"},
     responses : [DOMAIN m -> {LIKERT_OPTIONS[1]}]]

\* new_record (lines 331-340)
NewRecord(inp) ==
    [Nom |-> inp.nom, camp |-> inp.camp, sexe |-> inp.sexe, age |-> inp.age,
     pbs |-> inp.pbs, submission_time |-> inp.now, comments |-> inp.comments,
     responses |-> inp.responses]

\* st.form_submit_button("Save interview") (line 328); a full store takes no
\* further submission.
SubmitButton(st) == IF Len(st.items) < MaxSubmit THEN BOOLEAN ELSE {FALSE}

StoreAppend_Shared(st, s, r) ==
    [t \in Sessions |-> [set |-> TRUE, items |-> Append(st[t].items, r)]]

\* st.session_state["new_responses"].append(new_record) (line 341), with the
\* store of session s as line 282 left it.
StoreAppend(st, s, r) ==
    [st EXCEPT ![s] = [set |-> TRUE, items |-> Append(InitStore(st[s]).items, r)]]

InterviewForm(s) ==
    /\ pc[s] = "page"
    /\ page[s] = InterviewFormPage
    /\ IF ~HasColumn(cache.columns, CAMP)
       THEN \* data["Camps :"] (line 291), after line 282
            /\ store' = [store EXCEPT ![s] = InitStore(@)]
            /\ out' = [out EXCEPT ![s] = Ends(@, "crashed", {"KeyError"})]
            /\ UNCHANGED submitted
       ELSE \E inp \in FormInputs(cache, imap[s].cols),
               saved \in SubmitButton(InitStore(store[s])) :
            LET r == NewRecord(inp)
                after == IF saved THEN StoreAppend(store, s, r)
                         ELSE [store EXCEPT ![s] = InitStore(@)]
            IN
            /\ store' = after
            /\ submitted' = IF saved
                            THEN [submitted EXCEPT ![s] = Append(@, r)]
                            ELSE submitted
            /\ out' = [out EXCEPT ![s] =
                  [Ends(@, "done",
                        (IF MapIsEmpty(imap[s].cols) THEN {UnmappedWarning} ELSE {})
                        \cup (IF saved THEN {SavedSuccess} ELSE {})
                        \cup (IF Len(after[s].items) = 0
                              THEN {NoInterviewsInfo} ELSE {}))
                   EXCEPT !.form = IF saved THEN <<inp>> ELSE <<>>,
                          !.steps = IF Len(after[s].items) = 0 THEN {}
                                    ELSE {"session_table", "session_export"}]]
    /\ pc' = [pc EXCEPT ![s] = "idle"]
    /\ UNCHANGED <<file, cache, page, imap, view>>

(***************************************************************************)
(* The environment: the spreadsheet is deleted from the folder.            *)
(***************************************************************************)
AbsentFile == FileOf(FALSE, <<>>, <<>>)

RemoveFile ==
    /\ file.exists
    /\ file' = AbsentFile
    /\ UNCHANGED <<cache, page, store, submitted, pc, imap, view, out>>

(***************************************************************************)
(* Initial states and specifications.                                      *)
(***************************************************************************)
\* Everything but the spreadsheet: no session has run the script yet.
InitSessions ==
    /\ cache = NoData
    /\ page = [s \in Sessions |-> Dashboard]
    /\ store = [s \in Sessions |-> Unset]
    /\ submitted = [s \in Sessions |-> <<>>]
    /\ pc = [s \in Sessions |-> "idle"]
    /\ imap = [s \in Sessions |-> NoMap]
    /\ view = [s \in Sessions |-> NoView]
    /\ out = [s \in Sessions |-> NoOut]

\* The spreadsheet is absent, or holds up to n rows drawn from rowset.
FileIs(columns, rowset, n) ==
    \/ file = AbsentFile
    \/ \E k \in 0..n : \E rows \in [1..k -> rowset] :
          file = FileOf(TRUE, columns, rows)

L1 == LIKERT_OPTIONS[1]
Young == Num(18 * AgeScale)
Older == Num(19 * AgeScale + 1)
AllColumns == ColumnsOf(Len(FullColumns), TRUE)

\* Two sessions of one process over a small spreadsheet.
SampleFiles ==
    { AbsentFile,
      FileOf(TRUE, AllColumns, <<>>),
      FileOf(TRUE, AllColumns, <<Row("A", "Feminin", Young, L1, L1)>>),
      FileOf(TRUE, AllColumns, <<Row("B", "Masculin", Older, L1, L1)>>) }

Init == file \in SampleFiles /\ InitSessions

Step(s) ==
    \/ StartRun(s)
    \/ Navigate(s)
    \/ LoadData(s)
    \/ BuildMap(s)
    \/ DashboardFilter(s)
    \/ DashboardRender(s)
    \/ InterviewForm(s)

Next == (\E s \in Sessions : Step(s)) \/ RemoveFile

Spec == Init /\ [][Next]_vars

\* One session on the Dashboard over every spreadsheet of up to MaxRows rows
\* whose camp, sex and age cells vary, with and without an age column.
FilterRows(age) ==
    {Row(c, x, a, L1, L1) :
        c \in {"A", "B", NA}, x \in {"Masculin", "Feminin", NA},
        a \in IF age THEN {Young, Older, Text, Blank} ELSE {Blank}}

InitFilter ==
    /\ \E age \in BOOLEAN :
          FileIs(ColumnsOf(Len(FullColumns), age), FilterRows(age), MaxRows)
    /\ InitSessions

DashStep(s) ==
    \/ StartRun(s)
    \/ LoadData(s)
    \/ BuildMap(s)
    \/ DashboardFilter(s)
    \/ DashboardRender(s)

NextDash == DashStep("s1")
SpecFilter == InitFilter /\ [][NextDash]_vars

\* One session on the Dashboard over every spreadsheet of up to MaxAnsRows
\* rows whose answers vary.
Answers == Range(LIKERT_OPTIONS) \cup {NA, "Autre"}

AnswerRows ==
    {Row("A", "Feminin", Young, a, b) : a \in Answers, b \in {L1, NA}}

InitAgg == FileIs(AllColumns, AnswerRows, MaxAnsRows) /\ InitSessions
SpecAgg == InitAgg /\ [][NextDash]_vars

\* One session on both pages over spreadsheets of 0..MaxCols columns.
InitCols ==
    /\ \E n \in 0..MaxCols :
          FileIs(ColumnsOf(n, TRUE), {Row("A", "Feminin", Young, L1, L1)}, 1)
    /\ InitSessions

NextOne == Step("s1")
SpecCols == InitCols /\ [][NextOne]_vars

(***************************************************************************)
(* Properties.                                                             *)
(***************************************************************************)
HasAge == HasColumn(cache.columns, AGE)

\* The source rows a selection keeps, stated row by row.
Keeps(v, i) ==
    /\ cache.rows[i].camp \in v.camp_filter
    /\ cache.rows[i].sex \in v.sex_filter
    /\ v.age_range # <<>> =>
          /\ cache.rows[i].age.kind = "num"
          /\ v.age_range[1] * AgeScale <= cache.rows[i].age.v
          /\ cache.rows[i].age.v <= v.age_range[2] * AgeScale

\* C1: whatever the selections of the current run (and whatever the runs
\* before it selected), the filtered view holds source rows only, in source
\* order and without repetition, and holds a row exactly when its camp is
\* selected, its sex is selected and its age lies in [lo, hi]; the age test
\* is left out exactly when the data has no age column.
C1_FilteredViewIsConjunction ==
    \A s \in Sessions : view[s].set =>
        LET df == view[s].df IN
        /\ \A k \in 1..Len(df) : df[k] \in 1..Len(cache.rows)
        /\ \A k \in 1..(Len(df) - 1) : df[k] < df[k + 1]
        /\ \A i \in 1..Len(cache.rows) : (i \in Range(df)) <=> Keeps(view[s], i)
        /\ (view[s].age_range = <<>>) <=> ~HasAge

\* A narrowed selection over two rows that keeps one row and drops one that
\* sits on the edge of the age range.
C1_Witness ==
    \E s \in Sessions :
        /\ view[s].set
        /\ Len(cache.rows) = 2
        /\ Len(view[s].df) = 1
        /\ view[s].age_range # <<>>
        /\ view[s].age_range[1] = view[s].age_range[2]
        /\ view[s].camp_filter # Observed(cache, CAMP)
        /\ \E i \in 1..2 : cache.rows[i].age.kind = "num"
                           /\ cache.rows[i].age.v = view[s].age_range[1] * AgeScale
                           /\ i \in Range(view[s].df)

\* C3: a Dashboard run whose selections keep no record shows the "no
\* records" warning and stops there: it never reaches the key figures, and
\* none of the aggregation, chart, table or export steps has run.
C3_EmptyViewHalts ==
    \A s \in Sessions : (view[s].set /\ Len(view[s].df) = 0) =>
        /\ pc[s] = "idle"
        /\ out[s].status = "halted"
        /\ NoRecordsWarning \in out[s].msgs
        /\ out[s].steps = {}
        /\ view[s].counts = <<>>
        /\ view[s].key = ""
        /\ view[s].mean_age.n = 0

\* Selections that keep nothing of a source that holds records.
C3_Witness ==
    \E s \in Sessions :
        /\ view[s].set
        /\ Len(view[s].df) = 0
        /\ Len(cache.rows) > 0
        /\ out[s].status = "halted"

\* C7: with an age column, a non-numeric age never makes a run raise.
C7_NonNumericAgeNeverRaises ==
    \A s \in Sessions :
        (\E i \in 1..Len(file.rows) : file.rows[i].age = Text)
            => "ValueError" \notin out[s].msgs

\* C10: with the default selections the view holds exactly the source rows
\* whose camp, sex and (with an age column) age are present.
C10_DefaultViewKeepsAllPresent ==
    \A s \in Sessions :
        (/\ view[s].set
         /\ view[s].camp_filter = DefaultSelection(cache).camp_filter
         /\ view[s].sex_filter = DefaultSelection(cache).sex_filter
         /\ view[s].age_range = DefaultSelection(cache).age_range)
        => Range(view[s].df) =
              {i \in 1..Len(cache.rows) :
                  /\ cache.rows[i].camp # NA
                  /\ cache.rows[i].sex # NA
                  /\ HasAge => cache.rows[i].age.kind = "num"}

\* The answers of the filtered records to the selected indicator.
AnswersOf(s) ==
    [k \in 1..Len(view[s].df) |->
        Cell(cache.rows[view[s].df[k]], imap[s].cols[view[s].key])]

Total(counts) == SumSeq([i \in 1..Len(counts) |-> counts[i].n])

SixLevels(counts) ==
    /\ Len(counts) = Len(LIKERT_OPTIONS)
    /\ Len(counts) = 6
    /\ \A i \in 1..Len(counts) :
          counts[i].level = LIKERT_OPTIONS[i] /\ ~counts[i].isnan

Shown(s) == out[s].status = "done" /\ view[s].set /\ view[s].key # ""

\* C2 as stated: six entries in the fixed order, unobserved levels 0, and the
\* counts sum to the size of the subset minus the records whose answer is
\* missing.
C2_CountsSumToAnswered ==
    \A s \in Sessions : Shown(s) =>
        /\ SixLevels(view[s].counts)
        /\ Total(view[s].counts) =
              Len(view[s].df) - CountOf(AnswersOf(s), NA)

\* C2, amended: six entries in the fixed order, each the number of records
\* of the subset that gave that level (0 when none did), so that the counts
\* sum to the number of records whose answer is one of the six levels: a
\* missing answer and an answer outside the six levels are both left out.
C2_CountsSumToLikertAnswers ==
    \A s \in Sessions : Shown(s) =>
        /\ SixLevels(view[s].counts)
        /\ \A i \in 1..6 :
              view[s].counts[i].n = CountOf(AnswersOf(s), LIKERT_OPTIONS[i])
        /\ Total(view[s].counts) =
              Cardinality({k \in 1..Len(view[s].df) :
                              AnswersOf(s)[k] \in Range(LIKERT_OPTIONS)})

\* Three records: two gave the same level, one gave an answer outside the
\* six levels, and at least four levels were not observed.
C2_Witness ==
    \E s \in Sessions :
        /\ Shown(s)
        /\ Len(view[s].df) = 3
        /\ \E i \in 1..6 : view[s].counts[i].n = 2
        /\ Cardinality({i \in 1..6 : view[s].counts[i].n = 0}) = 5
        /\ \E k \in 1..3 : AnswersOf(s)[k] \notin Range(LIKERT_OPTIONS) \cup {NA}

\* C5: the map of a run holds a code exactly when the code's position is
\* below the number of columns, and maps it to the column at that position;
\* building it never raises; with an empty map a page that completes has
\* warned and has run no indicator step.
C5_IndicatorMap ==
    \A s \in Sessions :
        /\ "IndexError" \notin out[s].msgs
        /\ pc[s] \in {"page", "render"} \/ out[s].status = "done" => imap[s].built
        /\ imap[s].built =>
              /\ \A c \in Codes :
                    (c \in DOMAIN imap[s].cols)
                        <=> INDICATOR_INDEXES[c] < Len(cache.columns)
              /\ \A c \in DOMAIN imap[s].cols :
                    imap[s].cols[c] = cache.columns[INDICATOR_INDEXES[c] + 1]
        /\ (imap[s].built /\ DOMAIN imap[s].cols = {} /\ out[s].status = "done") =>
              /\ UnmappedWarning \in out[s].msgs
              /\ out[s].steps \cap {"indicator_distribution", "indicator_by_sex"} = {}
              /\ view[s].counts = <<>>
        /\ (imap[s].built /\ DOMAIN imap[s].cols # {} /\ out[s].status = "done") =>
              UnmappedWarning \notin out[s].msgs

\* A spreadsheet whose last column is the one of SDH1: the map holds SDH1
\* and nothing else, and the Dashboard has shown its distribution.
C5_Witness ==
    \E s \in Sessions :
        /\ imap[s].built
        /\ Len(cache.columns) = INDICATOR_INDEXES["SDH1"] + 1
        /\ DOMAIN imap[s].cols = {"SDH1"}
        /\ out[s].status = "done"
        /\ view[s].key = "SDH1"

\* The page body of session s ran in this step.
PageRan(s) == pc[s] \in {"page", "render"} /\ pc'[s] = "idle"

\* C4: in every session the store is exactly the sequence of the records
\* submitted in it, in submission order; a step leaves a session's store as it
\* is or appends one record at its end, and only a form run that saved does.
C4_StoreIsSubmissionLog ==
    /\ [](\A s \in Sessions : store[s].items = submitted[s])
    /\ [][\A s \in Sessions :
            \/ store'[s].items = store[s].items
            \/ /\ PageRan(s)
               /\ page[s] = InterviewFormPage
               /\ SavedSuccess \in out'[s].msgs
               /\ Len(store'[s].items) = Len(store[s].items) + 1
               /\ SubSeq(store'[s].items, 1, Len(store[s].items)) = store[s].items
         ]_vars

\* Two different records saved, then a navigation to the Dashboard and a
\* filter change there: both records are still in the store, in order.
C4_Witness ==
    \E s \in Sessions :
        /\ Len(store[s].items) = 2
        /\ store[s].items[1] # store[s].items[2]
        /\ page[s] = Dashboard
        /\ view[s].set
        /\ view[s].sex_filter = {}

\* The file was found absent by the load of session s in this step.
LoadFailed(s) == pc[s] = "load" /\ ~cache.loaded /\ ~file.exists /\ pc'[s] # "load"

\* C6: a load that finds the file absent shows the error that names the
\* expected file and stops the run: the run has built no Indicator Map,
\* rendered no page and made one load attempt, and the step changes neither
\* the cache nor any session's store.
C6_MissingFileIsFatal ==
    /\ [](\A s \in Sessions : MissingFileError \in out[s].msgs =>
            /\ out[s].status = "halted"
            /\ pc[s] = "idle"
            /\ ~imap[s].built
            /\ ~view[s].set
            /\ out[s].steps = {}
            /\ out[s].form = <<>>
            /\ out[s].loads = 1)
    /\ [](\A s \in Sessions : out[s].loads <= 1)
    /\ [][\A s \in Sessions : LoadFailed(s) =>
            /\ MissingFileError \in out'[s].msgs
            /\ out'[s].status = "halted"
            /\ pc'[s] = "idle"
            /\ store' = store
            /\ cache' = cache
         ]_vars

\* A session that went to the Interview form and whose run stopped on the
\* missing file, its store still not initialised.
C6_Witness ==
    \E s \in Sessions :
        /\ MissingFileError \in out[s].msgs
        /\ out[s].status = "halted"
        /\ page[s] = InterviewFormPage
        /\ ~store[s].set

\* C8: the page body of one session never changes the store of another
\* session, and a session's store holds as many records as were submitted in
\* that session, each of them one of that session's submissions.
C8_StoresAreIsolated ==
    /\ [][\A s \in Sessions : PageRan(s) =>
            \A t \in Sessions \ {s} : store'[t] = store[t]]_vars
    /\ [](\A s \in Sessions :
            /\ Len(store[s].items) = Len(submitted[s])
            /\ Range(store[s].items) \subseteq Range(submitted[s]))

\* Both sessions have saved, and their stores differ.
C8_Witness ==
    /\ \A s \in Sessions : Len(store[s].items) >= 1
    /\ store["s1"].items # store["s2"].items
    /\ Len(store["s1"].items) # Len(store["s2"].items)

====
